---------------------------- MODULE Spec2Model ----------------------------
(***************************************************************************)
(* Model of streamlit_app.py, the ITT localization validator: the timecode *)
(* codec, the overlap checker, the comparator, the corrected-document      *)
(* generator and the validation run over a batch of translated files.      *)
(*                                                                         *)
(* Text is modelled as a sequence of one-character strings, so that        *)
(* splitting, integer parsing and formatting are computed character by     *)
(* character, as the code does.                                            *)
(***************************************************************************)
EXTENDS Integers, Sequences, FiniteSets, TLC

VARIABLES
    pc,                  \* position of the run being modelled
    tc_a, tc_b,          \* codec: two timecode texts
    frames_a, frames_b,  \* codec: outcome of timecode_to_frames on each
    english_data,        \* reference cue sequence (compare_files, generator)
    translated_data,     \* translated cue sequence (compare_files)
    cmp_result,          \* outcome of compare_files
    itt_data,            \* cue sequence handed to check_timecode_overlap
    overlap_result,      \* outcome of check_timecode_overlap
    gen_out,             \* text returned by generate_corrected_itt
    english_file,        \* app: uploaded reference file
    translated_files,    \* app: uploaded translated files, in upload order
    app_english,         \* app: (english_data, english_lang, english_content)
    translated_contents, \* app: dict file name -> decoded content
    summary,             \* app: rows [name, lang, emoji] appended by loop 1
    pass1,               \* app: the locals of each iteration of loop 1
    errors_found,        \* app: the script-level variable errors_found
    table,               \* app: rows shown by st.table
    detail,              \* app: what each expander of loop 2 showed
    idx                  \* app: index of the file the current loop is at

vars == <<pc, tc_a, tc_b, frames_a, frames_b, english_data, translated_data,
          cmp_result, itt_data, overlap_result, gen_out, english_file,
          translated_files, app_english, translated_contents, summary, pass1,
          errors_found, table, detail, idx>>

codecVars == <<tc_a, tc_b, frames_a, frames_b>>
cmpVars == <<translated_data, cmp_result>>
ovVars == <<itt_data, overlap_result>>
genVars == <<gen_out>>
appVars == <<english_file, translated_files, app_english, translated_contents,
             summary, pass1, errors_found, table, detail, idx>>

\* Placeholder of a variable the specification at hand does not use.
None == "none"

-----------------------------------------------------------------------------
(* Characters and integer parsing                                          *)

Digits == {"0", "1", "2", "3", "4", "5", "6", "7", "8", "9"}

DigitVal(c) ==
    CASE c = "0" -> 0 [] c = "1" -> 1 [] c = "2" -> 2 [] c = "3" -> 3
      [] c = "4" -> 4 [] c = "5" -> 5 [] c = "6" -> 6 [] c = "7" -> 7
      [] c = "8" -> 8 [] c = "9" -> 9

\* Code point order of the characters the model uses ('-' 45, '0'..'9' 48..57,
\* ':' 58, 'x' 120): the order Python compares strings by.
CharOrd(c) ==
    IF c \in Digits THEN 48 + DigitVal(c)
    ELSE CASE c = "-" -> 45 [] c = ":" -> 58 [] c = "x" -> 120

\* str.split(sep): the maximal runs between occurrences of sep; an empty run
\* is kept ("a::b" has three parts, "" has one).
RECURSIVE SplitFrom(_, _, _, _)
SplitFrom(s, sep, i, cur) ==
    IF i > Len(s) THEN <<cur>>
    ELSE IF s[i] = sep THEN <<cur>> \o SplitFrom(s, sep, i + 1, <<>>)
    ELSE SplitFrom(s, sep, i + 1, Append(cur, s[i]))

split(s, sep) == SplitFrom(s, sep, 1, <<>>)

\* int(text) over the model's characters: an optional sign, then one or more
\* decimal digits; anything else raises ValueError.
Unsigned(p) == IF Len(p) > 0 /\ p[1] \in {"-", "+"} THEN Tail(p) ELSE p

IntParsable(p) ==
    /\ Len(Unsigned(p)) > 0
    /\ \A k \in 1..Len(Unsigned(p)) : Unsigned(p)[k] \in Digits

RECURSIVE DecimalValue(_)
DecimalValue(ds) ==
    IF Len(ds) = 0 THEN 0
    ELSE 10 * DecimalValue(SubSeq(ds, 1, Len(ds) - 1)) + DigitVal(ds[Len(ds)])

int(p) ==
    IF Len(p) > 0 /\ p[1] = "-" THEN 0 - DecimalValue(Unsigned(p))
    ELSE DecimalValue(Unsigned(p))

\* Outcome of a call: a returned value, or an exception raised to the caller.
Return(v) == [raised |-> FALSE, val |-> v]
Raise(e) == [raised |-> TRUE, exc |-> e]

-----------------------------------------------------------------------------
(* Timecode codec                                                          *)

FramesPerSecond == 30

\* A variant that weighs the hours field like the minutes field.
timecode_to_frames_HoursAsMinutes(tc) ==
    LET parts == split(tc, ":") IN
    IF Len(parts) # 4 \/ \E k \in 1..Len(parts) : ~IntParsable(parts[k])
    THEN Raise("ValueError")
    ELSE Return((int(parts[1]) * 60 + int(parts[2]) * 60 + int(parts[3]))
                    * FramesPerSecond + int(parts[4]))

\* A variant that leaves the frames field out of the sum.
timecode_to_frames_NoFrames(tc) ==
    LET parts == split(tc, ":") IN
    IF Len(parts) # 4 \/ \E k \in 1..Len(parts) : ~IntParsable(parts[k])
    THEN Raise("ValueError")
    ELSE Return((int(parts[1]) * 3600 + int(parts[2]) * 60 + int(parts[3]))
                    * FramesPerSecond)

\* h, m, s, f = map(int, tc.split(":")); return (h*3600 + m*60 + s)*30 + f
\* Unpacking raises ValueError unless there are exactly four parts, and int
\* raises ValueError on a part that is no integer.
timecode_to_frames(tc) ==
    LET parts == split(tc, ":") IN
    IF Len(parts) # 4 \/ \E k \in 1..Len(parts) : ~IntParsable(parts[k])
    THEN Raise("ValueError")
    ELSE Return((int(parts[1]) * 3600 + int(parts[2]) * 60 + int(parts[3]))
                    * FramesPerSecond + int(parts[4]))

\* Lexical (code point) order of two texts, as Python's str comparison.
RECURSIVE LexLess(_, _)
LexLess(a, b) ==
    IF Len(b) = 0 THEN FALSE
    ELSE IF Len(a) = 0 THEN TRUE
    ELSE IF a[1] # b[1] THEN CharOrd(a[1]) < CharOrd(b[1])
    ELSE LexLess(Tail(a), Tail(b))

\* A timecode text from its four fields.
TC(h, m, s, f) == h \o <<":">> \o m \o <<":">> \o s \o <<":">> \o f

\* The text matched by \d{2}:\d{2}:\d{2}:\d{2} (ASCII digits).
WellFormed(tc) ==
    /\ Len(tc) = 11
    /\ \A k \in {3, 6, 9} : tc[k] = ":"
    /\ \A k \in {1, 2, 4, 5, 7, 8, 10, 11} : tc[k] \in Digits

\* Two-digit fields the codec runs draw from: the ends of each field's
\* clock range and the values just past them.
HourFields == {<<"0", "0">>, <<"0", "1">>}
MinuteFields == {<<"0", "0">>, <<"0", "1">>, <<"5", "9">>, <<"6", "0">>}
SecondFields == {<<"0", "0">>, <<"0", "1">>, <<"5", "9">>, <<"6", "0">>}
FrameFields == {<<"0", "0">>, <<"2", "9">>, <<"3", "0">>, <<"9", "9">>}

\* Texts that are no HH:MM:SS:FF timecode: three parts, five parts, a part
\* that is no integer, an empty part, and a signed first part (which int
\* accepts).
ThreeParts == <<"0", "0", ":", "0", "0", ":", "0", "0">>
FiveParts == <<"0", "0", ":", "0", "0", ":", "0", "0", ":", "0", "0", ":", "0", "0">>
NonInteger == <<"0", "0", ":", "0", "0", ":", "0", "x", ":", "0", "0">>
EmptyPart == <<"0", "0", ":", ":", "0", "0", ":", "0", "0">>
SignedPart == <<"-", "1", ":", "0", "0", ":", "0", "0", ":", "0", "0">>

CodecTimecodes ==
    {TC(h, m, s, f) : h \in HourFields, m \in MinuteFields,
                      s \in SecondFields, f \in FrameFields}
        \cup {ThreeParts, FiveParts, NonInteger, EmptyPart, SignedPart}

InitCodec ==
    /\ pc = "start"
    /\ tc_a \in CodecTimecodes
    /\ tc_b \in CodecTimecodes
    /\ frames_a = None /\ frames_b = None
    /\ english_data = None /\ translated_data = None /\ cmp_result = None
    /\ itt_data = None /\ overlap_result = None /\ gen_out = None
    /\ english_file = None /\ translated_files = None /\ app_english = None
    /\ translated_contents = None /\ summary = None /\ pass1 = None
    /\ errors_found = None /\ table = None /\ detail = None /\ idx = None

\* Both timecodes are converted to frame counts.
Parse ==
    /\ pc = "start"
    /\ frames_a' = timecode_to_frames(tc_a)
    /\ frames_b' = timecode_to_frames(tc_b)
    /\ pc' = "done"
    /\ UNCHANGED <<tc_a, tc_b, english_data, cmpVars, ovVars, genVars, appVars>>

NextCodec == Parse

SpecCodec == InitCodec /\ [][NextCodec]_vars


\* The number a two-digit field at position k of a well-formed timecode
\* denotes, read off the digits directly.
FieldValue(tc, k) == 10 * DigitVal(tc[k]) + DigitVal(tc[k + 1])

\* Each field within its clock range at 30 frames per second.
InClockRange(tc) ==
    /\ FieldValue(tc, 4) <= 59
    /\ FieldValue(tc, 7) <= 59
    /\ FieldValue(tc, 10) <= FramesPerSecond - 1

CodecRuns == {<<tc_a, frames_a>>, <<tc_b, frames_b>>}

\* C7: for every timecode of four two-digit fields timecode_to_frames
\* returns the non-negative integer ((H*3600 + M*60 + S) * 30) + F, with no
\* bound on F; it returns 30 for 00:00:01:00 and 108000 for 01:00:00:00.
C7_FrameFormula ==
    pc = "done" =>
        \A r \in CodecRuns :
            WellFormed(r[1]) =>
                /\ ~r[2].raised
                /\ r[2].val = ((FieldValue(r[1], 1) * 3600
                                + FieldValue(r[1], 4) * 60
                                + FieldValue(r[1], 7)) * 30)
                              + FieldValue(r[1], 10)
                /\ r[2].val >= 0
                /\ (r[1] = TC(<<"0", "0">>, <<"0", "0">>, <<"0", "1">>, <<"0", "0">>)
                        => r[2].val = 30)
                /\ (r[1] = TC(<<"0", "1">>, <<"0", "0">>, <<"0", "0">>, <<"0", "0">>)
                        => r[2].val = 108000)

\* One hour parsed to 108000 frames, and a frames field of 99 accepted.
C7_Witness ==
    /\ pc = "done"
    /\ tc_a = TC(<<"0", "1">>, <<"0", "0">>, <<"0", "0">>, <<"0", "0">>)
    /\ frames_a = Return(108000)
    /\ tc_b = TC(<<"0", "0">>, <<"0", "0">>, <<"0", "1">>, <<"9", "9">>)
    /\ frames_b = Return(129)

\* C8 as stated: for all well-formed timecodes a and b, if a precedes b in
\* lexical order then timecode_to_frames(a) < timecode_to_frames(b).
C8_LexicalMonotonic ==
    (pc = "done" /\ WellFormed(tc_a) /\ WellFormed(tc_b) /\ LexLess(tc_a, tc_b))
        => frames_a.val < frames_b.val

\* C8 amended: for all well-formed timecodes a and b whose minutes and
\* seconds fields are at most 59 and whose frames field is at most 29, if a
\* precedes b in lexical order then timecode_to_frames(a) is strictly less
\* than timecode_to_frames(b).
C8_MonotonicInClockRange ==
    (pc = "done" /\ WellFormed(tc_a) /\ WellFormed(tc_b)
       /\ InClockRange(tc_a) /\ InClockRange(tc_b) /\ LexLess(tc_a, tc_b))
        => (~frames_a.raised /\ ~frames_b.raised /\ frames_a.val < frames_b.val)

\* Two in-range timecodes in lexical order that differ in the seconds and
\* the frames fields, parsed in the same order.
C8_Witness ==
    /\ pc = "done"
    /\ tc_a = TC(<<"0", "0">>, <<"0", "0">>, <<"0", "0">>, <<"2", "9">>)
    /\ tc_b = TC(<<"0", "0">>, <<"0", "0">>, <<"0", "1">>, <<"0", "0">>)
    /\ LexLess(tc_a, tc_b)
    /\ InClockRange(tc_a) /\ InClockRange(tc_b)
    /\ frames_a = Return(29)
    /\ frames_b = Return(30)


-----------------------------------------------------------------------------
(* Cue sequences                                                           *)

\* A cue is the tuple (begin, end, text) that re.findall returns per match.
Cue(start, end, text) == <<start, end, text>>

\* The sequences over S of length at most n.
RECURSIVE SeqsUpTo(_, _)
SeqsUpTo(S, n) ==
    IF n = 0 THEN {<<>>}
    ELSE LET shorter == SeqsUpTo(S, n - 1) IN
         shorter \cup {Append(q, c) : q \in {r \in shorter : Len(r) = n - 1}, c \in S}

Min(a, b) == IF a < b THEN a ELSE b

abs(x) == IF x < 0 THEN 0 - x ELSE x

\* The frame count of a well-formed timecode, read off its digits.
FramesOf(tc) ==
    ((FieldValue(tc, 1) * 3600 + FieldValue(tc, 4) * 60 + FieldValue(tc, 7)) * 30)
        + FieldValue(tc, 10)

AllWellFormed(data) ==
    \A k \in 1..Len(data) : WellFormed(data[k][1]) /\ WellFormed(data[k][2])

T0 == TC(<<"0", "0">>, <<"0", "0">>, <<"0", "0">>, <<"0", "0">>)
T3 == TC(<<"0", "0">>, <<"0", "0">>, <<"0", "0">>, <<"0", "3">>)
T4 == TC(<<"0", "0">>, <<"0", "0">>, <<"0", "0">>, <<"0", "4">>)
T7 == TC(<<"0", "0">>, <<"0", "0">>, <<"0", "0">>, <<"0", "7">>)

-----------------------------------------------------------------------------
(* Comparator                                                              *)

Tolerance == 3

\* A variant that also flags a difference of exactly the tolerance.
Drifted_Inclusive(x, y) == abs(x - y) >= Tolerance

\* abs(timecode_to_frames(a) - timecode_to_frames(b)) > 3
Drifted(x, y) == abs(x - y) > Tolerance

\* seq[from:] of Python, from counted from 0.
SliceFrom(seq, from) ==
    IF from >= Len(seq) THEN <<>>
    ELSE [k \in 1..(Len(seq) - from) |-> seq[from + k]]

\* The for loop of compare_files at 1-based index i. The start timecodes are
\* parsed first; the end timecodes are parsed only when the start frames are
\* within the tolerance ("or" takes its right operand only then). An
\* exception of timecode_to_frames leaves the function.
RECURSIVE CompareLoop(_, _, _, _)
CompareLoop(eng, tra, i, timecode_issues) ==
    IF i > Len(eng) \/ i > Len(tra) THEN Return(timecode_issues)
    ELSE
        LET eng_start == timecode_to_frames(eng[i][1])
            spa_start == timecode_to_frames(tra[i][1])
            eng_end == timecode_to_frames(eng[i][2])
            spa_end == timecode_to_frames(tra[i][2])
            flagged == Append(timecode_issues, <<eng[i][3], tra[i][3]>>)
        IN
        IF eng_start.raised \/ spa_start.raised THEN Raise("ValueError")
        ELSE IF Drifted(eng_start.val, spa_start.val)
             THEN CompareLoop(eng, tra, i + 1, flagged)
        ELSE IF eng_end.raised \/ spa_end.raised THEN Raise("ValueError")
        ELSE IF Drifted(eng_end.val, spa_end.val)
             THEN CompareLoop(eng, tra, i + 1, flagged)
        ELSE CompareLoop(eng, tra, i + 1, timecode_issues)

\* A variant that slices the extra lines from the translated length.
compare_files_ExtraFromOwnLength(eng, tra) ==
    LET scan == CompareLoop(eng, tra, 1, <<>>) IN
    IF scan.raised THEN scan
    ELSE Return([line_count_match |-> Len(eng) = Len(tra),
                 timecode_issues |-> scan.val,
                 extra_lines |-> IF Len(tra) > Len(eng)
                                 THEN SliceFrom(tra, Len(tra) - 1) ELSE <<>>,
                 missing_lines |-> IF Len(eng) > Len(tra)
                                   THEN SliceFrom(eng, Len(tra)) ELSE <<>>])

compare_files(eng, tra) ==
    LET scan == CompareLoop(eng, tra, 1, <<>>) IN
    IF scan.raised THEN scan
    ELSE Return([line_count_match |-> Len(eng) = Len(tra),
                 timecode_issues |-> scan.val,
                 extra_lines |-> IF Len(tra) > Len(eng)
                                 THEN SliceFrom(tra, Len(eng)) ELSE <<>>,
                 missing_lines |-> IF Len(eng) > Len(tra)
                                   THEN SliceFrom(eng, Len(tra)) ELSE <<>>])

MaxCues == 2

\* Cues the comparator runs draw from. Against the first: a start 3 frames
\* off, a start 4 frames off, an end 4 frames off, an end 3 frames off, and
\* cues whose end or start is no timecode.
CompareCues ==
    { Cue(T0, T4, "a"), Cue(T3, T4, "b"), Cue(T4, T4, "c"), Cue(T0, T0, "d"),
      Cue(T0, T7, "e"), Cue(T0, ThreeParts, "f"), Cue(NonInteger, T4, "g") }

InitCompare ==
    /\ pc = "start"
    /\ english_data \in SeqsUpTo(CompareCues, MaxCues)
    /\ translated_data \in SeqsUpTo(CompareCues, MaxCues)
    /\ cmp_result = None
    /\ tc_a = None /\ tc_b = None /\ frames_a = None /\ frames_b = None
    /\ itt_data = None /\ overlap_result = None /\ gen_out = None
    /\ english_file = None /\ translated_files = None /\ app_english = None
    /\ translated_contents = None /\ summary = None /\ pass1 = None
    /\ errors_found = None /\ table = None /\ detail = None /\ idx = None

\* compare_files(english_data, translated_data) is called.
Compare ==
    /\ pc = "start"
    /\ cmp_result' = compare_files(english_data, translated_data)
    /\ pc' = "done"
    /\ UNCHANGED <<codecVars, english_data, translated_data, ovVars, genVars,
                   appVars>>

NextCompare == Compare

SpecCompare == InitCompare /\ [][NextCompare]_vars

\* Indices of the common region whose start or end frames differ by more
\* than 3, for well-formed cues.
FlaggedIndices(eng, tra) ==
    {i \in 1..Min(Len(eng), Len(tra)) :
        \/ abs(FramesOf(eng[i][1]) - FramesOf(tra[i][1])) > 3
        \/ abs(FramesOf(eng[i][2]) - FramesOf(tra[i][2])) > 3}

\* C1: for well-formed R and T, timecode_issues holds the pair
\* (R[i].text, T[i].text) exactly for the indices i of the common region
\* whose start or end frame counts differ by more than 3 (never at exactly
\* 3), in increasing index order, every index being examined.
C1_IssuesAreTheDriftedIndices ==
    (pc = "done" /\ AllWellFormed(english_data) /\ AllWellFormed(translated_data))
    =>
    LET F == FlaggedIndices(english_data, translated_data)
        Rank(i) == Cardinality({j \in F : j <= i})
    IN
    /\ ~cmp_result.raised
    /\ Len(cmp_result.val.timecode_issues) = Cardinality(F)
    /\ \A i \in F : cmp_result.val.timecode_issues[Rank(i)]
                        = <<english_data[i][3], translated_data[i][3]>>

\* Two drifted indices, the first by its start and the second by its end,
\* both reported in index order.
C1_Witness ==
    /\ pc = "done"
    /\ english_data = <<Cue(T0, T4, "a"), Cue(T0, T4, "a")>>
    /\ translated_data = <<Cue(T4, T4, "c"), Cue(T0, T0, "d")>>
    /\ cmp_result.val.timecode_issues = << <<"a", "c">>, <<"a", "d">> >>

\* C2: compare_files returns line_count_match = (m == n), extra_lines =
\* T[m:] when n > m and empty otherwise, missing_lines = R[n:] when m > n and
\* empty otherwise; the two are never both non-empty, line_count_match holds
\* exactly when both are empty, and identical cue lists give a match with no
\* issues, no extra and no missing lines.
C2_LineCounts ==
    pc = "done" =>
    LET m == Len(english_data)
        n == Len(translated_data)
    IN
    /\ (AllWellFormed(english_data) /\ AllWellFormed(translated_data))
            => ~cmp_result.raised
    /\ ~cmp_result.raised =>
        LET r == cmp_result.val IN
        /\ r.line_count_match = (m = n)
        /\ Len(r.extra_lines) = (IF n > m THEN n - m ELSE 0)
        /\ \A k \in 1..Len(r.extra_lines) : r.extra_lines[k] = translated_data[m + k]
        /\ Len(r.missing_lines) = (IF m > n THEN m - n ELSE 0)
        /\ \A k \in 1..Len(r.missing_lines) : r.missing_lines[k] = english_data[n + k]
        /\ ~(Len(r.extra_lines) > 0 /\ Len(r.missing_lines) > 0)
        /\ r.line_count_match = (Len(r.extra_lines) = 0 /\ Len(r.missing_lines) = 0)
        /\ (english_data = translated_data /\ AllWellFormed(english_data))
                => /\ r.line_count_match
                   /\ r.timecode_issues = <<>>
                   /\ r.extra_lines = <<>>
                   /\ r.missing_lines = <<>>

\* A translated file one cue longer than the reference: the cue past the
\* reference length is the one extra line.
C2_Witness ==
    /\ pc = "done"
    /\ english_data = <<Cue(T0, T4, "a")>>
    /\ translated_data = <<Cue(T0, T4, "a"), Cue(T3, T4, "b")>>
    /\ ~cmp_result.raised
    /\ ~cmp_result.val.line_count_match
    /\ cmp_result.val.extra_lines = <<Cue(T3, T4, "b")>>
    /\ cmp_result.val.missing_lines = <<>>

\* A text whose split on ':' does not yield exactly 4 integer-parsable parts.
Malformed(tc) ==
    LET parts == split(tc, ":") IN
    Len(parts) # 4 \/ \E k \in 1..Len(parts) : ~IntParsable(parts[k])

\* C9: timecode_to_frames fails on every text that does not split into 4
\* integer-parsable parts, and when a cue reached by the scan of
\* compare_files carries such a timecode the error propagates: no
\* comparison result is returned.
C9_MalformedTimecodeIsFatal ==
    pc = "done" =>
        \A i \in 1..Min(Len(english_data), Len(translated_data)) :
            \A tc \in {english_data[i][1], english_data[i][2],
                       translated_data[i][1], translated_data[i][2]} :
                Malformed(tc) => (timecode_to_frames(tc).raised /\ cmp_result.raised)


-----------------------------------------------------------------------------
(* Overlap checker                                                         *)

\* prev_end: None before the first cue, then the previous cue's end frames.
NoPrev == [is_none |-> TRUE]
Prev(v) == [is_none |-> FALSE, val |-> v]

\* A variant that also reports a cue starting exactly at the previous end.
Overlaps_Inclusive(prev_end, start_frames) ==
    ~prev_end.is_none /\ start_frames <= prev_end.val

\* prev_end is not None and start_frames < prev_end
Overlaps(prev_end, start_frames) ==
    ~prev_end.is_none /\ start_frames < prev_end.val

\* The for loop of check_timecode_overlap at 1-based index i: both timecodes
\* of the cue are parsed, then the start is compared with prev_end; the
\* first overlap returns True.
RECURSIVE OverlapLoop(_, _, _)
OverlapLoop(data, i, prev_end) ==
    IF i > Len(data) THEN Return(FALSE)
    ELSE
        LET start_frames == timecode_to_frames(data[i][1])
            end_frames == timecode_to_frames(data[i][2])
        IN
        IF start_frames.raised \/ end_frames.raised THEN Raise("ValueError")
        ELSE IF Overlaps(prev_end, start_frames.val) THEN Return(TRUE)
        ELSE OverlapLoop(data, i + 1, Prev(end_frames.val))

check_timecode_overlap(data) == OverlapLoop(data, 1, NoPrev)

MaxOverlapCues == 3

\* Cues the overlap runs draw from: every start and end among frames 0, 3
\* and 4 (so also cues that end before they start), and two cues with a
\* text that is no timecode.
OverlapCues ==
    {Cue(b, e, "a") : b \in {T0, T3, T4}, e \in {T0, T3, T4}}
        \cup {Cue(T4, ThreeParts, "a"), Cue(NonInteger, T4, "a")}

InitOverlap ==
    /\ pc = "start"
    /\ itt_data \in SeqsUpTo(OverlapCues, MaxOverlapCues)
    /\ overlap_result = None
    /\ tc_a = None /\ tc_b = None /\ frames_a = None /\ frames_b = None
    /\ english_data = None /\ translated_data = None /\ cmp_result = None
    /\ gen_out = None
    /\ english_file = None /\ translated_files = None /\ app_english = None
    /\ translated_contents = None /\ summary = None /\ pass1 = None
    /\ errors_found = None /\ table = None /\ detail = None /\ idx = None

\* check_timecode_overlap(itt_data) is called.
CheckOverlap ==
    /\ pc = "start"
    /\ overlap_result' = check_timecode_overlap(itt_data)
    /\ pc' = "done"
    /\ UNCHANGED <<codecVars, english_data, cmpVars, itt_data, genVars, appVars>>

NextOverlap == CheckOverlap

SpecOverlap == InitOverlap /\ [][NextOverlap]_vars

\* C3: for well-formed cues check_timecode_overlap returns true if and only
\* if some cue starts strictly before the end of the cue immediately before
\* it; abutting cues do not overlap, and empty and single-cue sequences
\* return false.
C3_OverlapIffStartsBeforePreviousEnd ==
    (pc = "done" /\ AllWellFormed(itt_data)) =>
        /\ ~overlap_result.raised
        /\ overlap_result.val =
              (\E i \in 2..Len(itt_data) :
                    FramesOf(itt_data[i][1]) < FramesOf(itt_data[i - 1][2]))
        /\ Len(itt_data) <= 1 => overlap_result.val = FALSE

\* The second cue abuts the first, and the third starts before the end of
\* the first but not before the end of the second: no overlap is reported.
C3_Witness ==
    /\ pc = "done"
    /\ itt_data = <<Cue(T0, T4, "a"), Cue(T4, T3, "a"), Cue(T3, T4, "a")>>
    /\ overlap_result = Return(FALSE)

-----------------------------------------------------------------------------
(* Corrected-document generator                                            *)

\* "<?xml version='1.0' encoding='utf-8'?>\n<tt>\n<body>\n"
GenHeader ==
    <<"<", "?", "x", "m", "l", " ", "v", "e", "r", "s", "i", "o", "n", "=",
      "'", "1", ".", "0", "'", " ", "e", "n", "c", "o", "d", "i", "n", "g",
      "=", "'", "u", "t", "f", "-", "8", "'", "?", ">", "\n", "<", "t", "t",
      ">", "\n", "<", "b", "o", "d", "y", ">", "\n">>

\* '    <p begin="'
GenLineOpen ==
    <<" ", " ", " ", " ", "<", "p", " ", "b", "e", "g", "i", "n", "=", "\"">>

\* '" end="'
GenLineMid ==
    <<"\"", " ", "e", "n", "d", "=", "\"">>

\* '">TRANSLATED TEXT HERE</p>\n'
GenLineClose ==
    <<"\"", ">", "T", "R", "A", "N", "S", "L", "A", "T", "E", "D", " ", "T",
      "E", "X", "T", " ", "H", "E", "R", "E", "<", "/", "p", ">", "\n">>

\* "</body>\n</tt>"
GenFooter ==
    <<"<", "/", "b", "o", "d", "y", ">", "\n", "<", "/", "t", "t", ">">>

\* A variant that writes the cue's text where the placeholder belongs.
corrected_line_KeepsText(cue) ==
    GenLineOpen \o cue[1] \o GenLineMid \o cue[2] \o <<"\"", ">">>
        \o <<cue[3]>> \o <<"<", "/", "p", ">", "\n">>

\* f'    <p begin="{eng_start}" end="{eng_end}">TRANSLATED TEXT HERE</p>\n'
corrected_line(cue) ==
    GenLineOpen \o cue[1] \o GenLineMid \o cue[2] \o GenLineClose

\* The for loop of generate_corrected_itt from 1-based index i on.
RECURSIVE GenLoop(_, _, _)
GenLoop(data, i, corrected_output) ==
    IF i > Len(data) THEN corrected_output
    ELSE GenLoop(data, i + 1, corrected_output \o corrected_line(data[i]))

generate_corrected_itt(data) == GenLoop(data, 1, GenHeader) \o GenFooter

MaxGenCues == 2

T30 == TC(<<"0", "0">>, <<"0", "0">>, <<"0", "0">>, <<"3", "0">>)
T2s == TC(<<"0", "0">>, <<"0", "0">>, <<"0", "2">>, <<"0", "0">>)

\* Cues the generator runs draw from: a begin or end whose frames field is
\* 30 (one second, written unnormalised) and an end of another length.
GenCues ==
    {Cue(b, e, "Hello") : b \in {T0, T30, T2s}, e \in {T2s, T30, ThreeParts}}

InitGen ==
    /\ pc = "start"
    /\ english_data \in SeqsUpTo(GenCues, MaxGenCues)
    /\ gen_out = None
    /\ tc_a = None /\ tc_b = None /\ frames_a = None /\ frames_b = None
    /\ translated_data = None /\ cmp_result = None
    /\ itt_data = None /\ overlap_result = None
    /\ english_file = None /\ translated_files = None /\ app_english = None
    /\ translated_contents = None /\ summary = None /\ pass1 = None
    /\ errors_found = None /\ table = None /\ detail = None /\ idx = None

\* generate_corrected_itt(english_data) is called.
Generate ==
    /\ pc = "start"
    /\ gen_out' = generate_corrected_itt(english_data)
    /\ pc' = "done"
    /\ UNCHANGED <<codecVars, english_data, cmpVars, ovVars, appVars>>

NextGen == Generate

SpecGen == InitGen /\ [][NextGen]_vars

\* The document the interface section of the specification prescribes.
C6_Header ==
    <<"<", "?", "x", "m", "l", " ", "v", "e", "r", "s", "i", "o", "n", "=",
      "'", "1", ".", "0", "'", " ", "e", "n", "c", "o", "d", "i", "n", "g",
      "=", "'", "u", "t", "f", "-", "8", "'", "?", ">", "\n", "<", "t", "t",
      ">", "\n", "<", "b", "o", "d", "y", ">", "\n">>

C6_LineOpen ==
    <<" ", " ", " ", " ", "<", "p", " ", "b", "e", "g", "i", "n", "=", "\"">>

C6_LineMid ==
    <<"\"", " ", "e", "n", "d", "=", "\"">>

C6_LineClose ==
    <<"\"", ">", "T", "R", "A", "N", "S", "L", "A", "T", "E", "D", " ", "T",
      "E", "X", "T", " ", "H", "E", "R", "E", "<", "/", "p", ">", "\n">>

C6_Footer ==
    <<"<", "/", "b", "o", "d", "y", ">", "\n", "<", "/", "t", "t", ">">>

\* Length of the line of a cue, and the offset in the output at which the
\* line of cue k begins.
C6_LineLen(cue) ==
    Len(C6_LineOpen) + Len(cue[1]) + Len(C6_LineMid) + Len(cue[2]) + Len(C6_LineClose)

RECURSIVE C6_Offset(_, _)
C6_Offset(data, k) ==
    IF k = 1 THEN Len(C6_Header)
    ELSE C6_Offset(data, k - 1) + C6_LineLen(data[k - 1])

\* Whether text appears in out right after position at.
C6_At(out, at, text) ==
    /\ at + Len(text) <= Len(out)
    /\ \A j \in 1..Len(text) : out[at + j] = text[j]

\* C6: generate_corrected_itt returns the fixed header, then exactly one
\* line '    <p begin="B" end="E">TRANSLATED TEXT HERE</p>\n' per reference
\* cue in reference order, B and E being the cue's begin and end text
\* verbatim, then the footer; the cue text does not appear, and an empty
\* reference yields header and footer only.
C6_GeneratedDocument ==
    pc = "done" =>
        LET n == Len(english_data)
            body_end == C6_Offset(english_data, n + 1)
        IN
        /\ Len(gen_out) = body_end + Len(C6_Footer)
        /\ C6_At(gen_out, 0, C6_Header)
        /\ C6_At(gen_out, body_end, C6_Footer)
        /\ \A k \in 1..n :
              LET cue == english_data[k]
                  o == C6_Offset(english_data, k)
              IN
              /\ C6_At(gen_out, o, C6_LineOpen)
              /\ C6_At(gen_out, o + Len(C6_LineOpen), cue[1])
              /\ C6_At(gen_out, o + Len(C6_LineOpen) + Len(cue[1]), C6_LineMid)
              /\ C6_At(gen_out, o + Len(C6_LineOpen) + Len(cue[1]) + Len(C6_LineMid),
                       cue[2])
              /\ C6_At(gen_out, o + Len(C6_LineOpen) + Len(cue[1]) + Len(C6_LineMid)
                                  + Len(cue[2]), C6_LineClose)
        /\ \A j \in 1..Len(gen_out) :
              \A k \in 1..n : gen_out[j] # english_data[k][3]
        /\ n = 0 => gen_out = C6_Header \o C6_Footer

\* Two reference cues, the second with an unnormalised begin; the output
\* carries both lines in order with the timecodes as written.
C6_Witness ==
    /\ pc = "done"
    /\ english_data = <<Cue(T0, T2s, "Hello"), Cue(T30, T2s, "Hello")>>
    /\ gen_out = C6_Header
                   \o C6_LineOpen \o T0 \o C6_LineMid \o T2s \o C6_LineClose
                   \o C6_LineOpen \o T30 \o C6_LineMid \o T2s \o C6_LineClose
                   \o C6_Footer


-----------------------------------------------------------------------------
(* Documents and the cue extractor                                         *)

\* The bytes of an uploaded file: either no valid UTF-8, or the encoding of
\* a text. A text is the sequence of its fragments: a '<p begin=".." end="..">
\* ..</p>' fragment, an xml:lang attribute, or any other markup.
Undecodable == [utf8 |-> FALSE, text |-> <<>>]
P(begin, end, inner) == [kind |-> "p", begin |-> begin, end |-> end, inner |-> inner]
Lang(code) == [kind |-> "lang", code |-> code]
Markup == [kind |-> "markup"]

\* bytes.decode("utf-8") and str.encode("utf-8")
decode(bytes) ==
    IF bytes.utf8 THEN Return(bytes.text) ELSE Raise("UnicodeDecodeError")

encode(text) == [utf8 |-> TRUE, text |-> text]

\* re.findall of the cue pattern: the fragments whose begin and end match
\* \d{2}:\d{2}:\d{2}:\d{2}, in document order, as (begin, end, inner).
RECURSIVE findall_cues(_)
findall_cues(content) ==
    IF Len(content) = 0 THEN <<>>
    ELSE LET t == Head(content) IN
         IF t.kind = "p" /\ WellFormed(t.begin) /\ WellFormed(t.end)
         THEN <<Cue(t.begin, t.end, t.inner)>> \o findall_cues(Tail(content))
         ELSE findall_cues(Tail(content))

\* re.search of the xml:lang attribute: the first one anywhere in the text,
\* "Unknown" when there is none.
RECURSIVE search_lang(_)
search_lang(content) ==
    IF Len(content) = 0 THEN "Unknown"
    ELSE IF Head(content).kind = "lang" THEN Head(content).code
    ELSE search_lang(Tail(content))

extract_itt_data(file_content) ==
    LET content == decode(file_content) IN
    IF content.raised THEN content
    ELSE Return([data |-> findall_cues(content.val),
                 lang |-> search_lang(content.val),
                 content |-> content.val])

-----------------------------------------------------------------------------
(* The validation run                                                      *)

\* dict[key] = value
Store(dict, key, value) ==
    [k \in DOMAIN dict \cup {key} |-> IF k = key THEN value ELSE dict[k]]

\* errors_found = not line_count_match or timecode_issues or overlap_issue,
\* as the truth value the script tests.
ErrorsFound(line_count_match, timecode_issues, overlap_issue) ==
    ~line_count_match \/ Len(timecode_issues) > 0 \/ overlap_issue

\* The reference document, and the translated documents a batch draws from:
\* one that validates, one with a start 4 frames off, one a cue short, one
\* with no language tag whose cues overlap, one holding a fragment that is no
\* cue, and one that is no UTF-8.
RefDoc == <<Lang("en"), P(T0, T4, "Hello"), P(T4, T7, "World")>>
DocClean == <<Lang("fr-FR"), P(T0, T4, "Bonjour"), P(T4, T7, "Monde")>>
DocDrift == <<Lang("es-ES"), P(T4, T4, "Hola"), P(T4, T7, "Mundo")>>
DocShort == <<Lang("it-IT"), P(T0, T4, "Ciao")>>
DocOverlap == <<Markup, P(T0, T7, "Hallo"), P(T4, T7, "Welt")>>
DocNoCue == <<Lang("ja-JP"), P(T0, T4, "A"), P(ThreeParts, T7, "B"), P(T3, T7, "C")>>

TranslatedBytes ==
    {encode(d) : d \in {DocClean, DocDrift, DocShort, DocOverlap, DocNoCue}}
        \cup {Undecodable}

FileNames == {"a.itt", "b.itt"}

UploadedFile(name, bytes) == [name |-> name, bytes |-> bytes]

MaxFiles == 2

InitApp ==
    /\ pc = "start"
    /\ english_file \in {UploadedFile("en.itt", encode(RefDoc)),
                         UploadedFile("en.itt", Undecodable)}
    /\ translated_files \in
          SeqsUpTo({UploadedFile(n, b) : n \in FileNames, b \in TranslatedBytes},
                   MaxFiles)
    /\ app_english = None
    /\ translated_contents = <<>>
    /\ summary = <<>>
    /\ pass1 = <<>>
    /\ errors_found = None
    /\ table = <<>>
    /\ detail = <<>>
    /\ idx = 0
    /\ tc_a = None /\ tc_b = None /\ frames_a = None /\ frames_b = None
    /\ english_data = None /\ translated_data = None /\ cmp_result = None
    /\ itt_data = None /\ overlap_result = None /\ gen_out = None

appConst == <<codecVars, english_data, cmpVars, ovVars, genVars, english_file,
              translated_files>>

\* Lines 64-67: nothing is shown unless both uploads are there; the
\* reference is extracted, and an exception ends the script run.
Start ==
    /\ pc = "start"
    /\ IF Len(translated_files) = 0
       THEN /\ pc' = "done"
            /\ UNCHANGED <<app_english, idx>>
       ELSE LET e == extract_itt_data(english_file.bytes) IN
            IF e.raised
            THEN /\ pc' = "crashed"
                 /\ UNCHANGED <<app_english, idx>>
            ELSE /\ pc' = "summary"
                 /\ app_english' = e.val
                 /\ idx' = 1
    /\ UNCHANGED <<appConst, translated_contents, summary, pass1, errors_found,
                   table, detail>>

\* Lines 69-78: one iteration of the summary loop.
SummaryStep ==
    /\ pc = "summary"
    /\ LET translated_file == translated_files[idx]
           x == extract_itt_data(translated_file.bytes)
       IN
       IF x.raised
       THEN /\ pc' = "crashed"
            /\ UNCHANGED <<translated_contents, summary, pass1, errors_found, idx>>
       ELSE
         LET c == compare_files(app_english.data, x.val.data)
             o == check_timecode_overlap(x.val.data)
         IN
         IF c.raised \/ o.raised
         THEN /\ pc' = "crashed"
              /\ translated_contents' =
                    Store(translated_contents, translated_file.name, x.val.content)
              /\ UNCHANGED <<summary, pass1, errors_found, idx>>
         ELSE
           LET found == ErrorsFound(c.val.line_count_match,
                                    c.val.timecode_issues, o.val)
           IN
           /\ translated_contents' =
                 Store(translated_contents, translated_file.name, x.val.content)
           /\ errors_found' = found
           /\ summary' = Append(summary,
                                [name |-> translated_file.name,
                                 lang |-> x.val.lang,
                                 result |-> IF found THEN "FAIL" ELSE "PASS"])
           /\ pass1' = Append(pass1,
                              [translated_data |-> x.val.data,
                               translated_lang |-> x.val.lang,
                               translated_content |-> x.val.content,
                               compared |-> c.val,
                               overlap_issue |-> o.val])
           /\ IF idx = Len(translated_files)
              THEN pc' = "table" /\ idx' = idx
              ELSE pc' = "summary" /\ idx' = idx + 1
    /\ UNCHANGED <<appConst, app_english, table, detail>>

\* Lines 80-82: the summary table is shown.
ShowTable ==
    /\ pc = "table"
    /\ table' = summary
    /\ pc' = "detail"
    /\ idx' = 1
    /\ UNCHANGED <<appConst, app_english, translated_contents, summary, pass1,
                   errors_found, detail>>

\* Lines 84-124: one iteration of the detail loop. The content is looked up
\* by file name, extracted and compared again; errors_found is the variable
\* the summary loop left behind.
DetailStep ==
    /\ pc = "detail"
    /\ LET translated_file == translated_files[idx]
           translated_content == translated_contents[translated_file.name]
           x == extract_itt_data(encode(translated_content))
       IN
       IF x.raised
       THEN /\ pc' = "crashed"
            /\ UNCHANGED <<detail, idx>>
       ELSE
         LET c == compare_files(app_english.data, x.val.data)
             o == check_timecode_overlap(x.val.data)
         IN
         IF c.raised \/ o.raised
         THEN /\ pc' = "crashed"
              /\ UNCHANGED <<detail, idx>>
         ELSE
           /\ detail' = Append(detail,
                 [name |-> translated_file.name,
                  translated_data |-> x.val.data,
                  translated_lang |-> x.val.lang,
                  translated_content |-> translated_content,
                  compared |-> c.val,
                  overlap_issue |-> o.val,
                  download |-> IF errors_found
                               THEN <<generate_corrected_itt(app_english.data)>>
                               ELSE <<>>])
           /\ IF idx = Len(translated_files)
              THEN pc' = "done" /\ idx' = idx
              ELSE pc' = "detail" /\ idx' = idx + 1
    /\ UNCHANGED <<appConst, app_english, translated_contents, summary, pass1,
                   errors_found, table>>

NextApp == Start \/ SummaryStep \/ ShowTable \/ DetailStep

SpecApp == InitApp /\ [][NextApp]_vars

\* C4: the corrected document is generated and offered for a translated
\* file if and only if an error (line count mismatch, timecode issue or
\* overlap) was detected for that same file, whatever the other files of the
\* batch gave.
C4_CorrectedDocumentIffOwnErrors ==
    pc = "done" =>
        \A i \in 1..Len(detail) :
            (Len(detail[i].download) > 0) <=> (summary[i].result = "FAIL")

\* C5: when one translated document of a batch is no valid UTF-8, every
\* other translated document is still extracted, compared and reported in
\* the summary table.
C5_DecodeFailureSparesOtherDocuments ==
    (pc \in {"done", "crashed"} /\ english_file.bytes.utf8) =>
        \A i \in 1..Len(translated_files) :
            translated_files[i].bytes.utf8 =>
                \E k \in 1..Len(table) :
                    /\ table[k].name = translated_files[i].name
                    /\ table[k].lang = search_lang(translated_files[i].bytes.text)

\* C10: for every translated file of a batch the detail pass shows the
\* cues, language tag, comparison result and overlap flag computed from
\* that file's own content, equal to those of the summary pass.
C10_DetailShowsOwnFile ==
    pc = "done" =>
        \A i \in 1..Len(detail) :
            /\ detail[i].translated_content = translated_files[i].bytes.text
            /\ detail[i].translated_data = pass1[i].translated_data
            /\ detail[i].translated_lang = pass1[i].translated_lang
            /\ detail[i].compared = pass1[i].compared
            /\ detail[i].overlap_issue = pass1[i].overlap_issue

=============================================================================
